---- MODULE Spec2Model ----
(***************************************************************************)
(* Model of the chatbot turn pipeline of src/bot_logic.py and src/main.py. *)
(*                                                                         *)
(* Texts are sequences of one-character strings, so that the substring     *)
(* tests and the str.replace calls of the code act on characters.  A fixed *)
(* message of the program is a one-element sequence holding the whole      *)
(* message: it is an atom that no substring test looks into.               *)
(***************************************************************************)
EXTENDS Integers, Sequences, FiniteSets, TLC

VARIABLES
    pc,             \* position of the turn handler
    text,           \* turn_context.activity.text of the current turn
    stack,          \* dialog stack of the DialogState held by memory_storage
    stored,         \* memory_storage holds the state of the conversation
    dstack,         \* dialog stack of the turn's DialogContext
    next_index,     \* index of the waterfall step about to run
    step_result,    \* step_context.result handed to that step
    step,           \* waterfall step being executed
    user_question,  \* user_question of the running step
    calls,          \* outbound calls issued in this turn, in order
    sent,           \* activities sent to the user in this turn, in order
    response,       \* response of the step / return value of handle_query
    columns,        \* columns read by inspector.get_columns
    sql_raw,        \* query_response.content.strip()
    sql_query,      \* statement returned by create_sql_query_from_response
    validation,     \* outcome of the test of line 102
    raised,         \* exceptions raised in this turn, in order
    escaped,        \* an exception left the bot and reached on_turn_error
    steps_run,      \* waterfall steps executed so far, over all turns
    fmt_in,         \* argument of format_response (function specification)
    fmt_out         \* result of format_response (function specification)

vars == <<pc, text, stack, stored, dstack, next_index, step_result, step,
          user_question, calls, sent, response, columns, sql_raw, sql_query,
          validation, raised, escaped, steps_run, fmt_in, fmt_out>>

turn_vars == <<pc, text, stack, stored, dstack, next_index, step_result, step,
               user_question, calls, sent, response, columns, sql_raw,
               sql_query, validation, raised, escaped, steps_run>>

----------------------------------------------------------------------------
(* Bounds *)

\* longest run of blanks put before or after a greeting phrase
MaxPad == 1

\* number of fragments an argument of format_response is assembled from
MaxPieces == 3

----------------------------------------------------------------------------
(* Python values *)

\* Python's None, and the value of a variable that is not bound yet
None == <<"None">>
Unbound == <<"Unbound">>

\* bool(user_question), line 65
truthy(s) == s # None /\ s # <<>>

----------------------------------------------------------------------------
(* str methods *)

Lowers == <<"a", "b", "c", "d", "e", "f", "g", "h", "i", "j", "k", "l", "m",
            "n", "o", "p", "q", "r", "s", "t", "u", "v", "w", "x", "y", "z">>
Uppers == <<"A", "B", "C", "D", "E", "F", "G", "H", "I", "J", "K", "L", "M",
            "N", "O", "P", "Q", "R", "S", "T", "U", "V", "W", "X", "Y", "Z">>

lower_char(c) ==
    IF \E i \in 1..26 : Uppers[i] = c
    THEN Lowers[CHOOSE i \in 1..26 : Uppers[i] = c]
    ELSE c

upper_char(c) ==
    IF \E i \in 1..26 : Lowers[i] = c
    THEN Uppers[CHOOSE i \in 1..26 : Lowers[i] = c]
    ELSE c

\* str.lower, str.upper
lower(s) == [i \in 1..Len(s) |-> lower_char(s[i])]
upper(s) == [i \in 1..Len(s) |-> upper_char(s[i])]

Whitespace == {" ", "\n", "\t"}

RECURSIVE lstrip(_)
lstrip(s) ==
    IF s # <<>> /\ Head(s) \in Whitespace THEN lstrip(Tail(s)) ELSE s

RECURSIVE rstrip(_)
rstrip(s) ==
    IF s # <<>> /\ s[Len(s)] \in Whitespace
    THEN rstrip(SubSeq(s, 1, Len(s) - 1))
    ELSE s

\* str.strip
strip(s) == rstrip(lstrip(s))

\* s[i:].startswith(pat)
IsAt(s, pat, i) ==
    /\ i + Len(pat) - 1 <= Len(s)
    /\ \A k \in 1..Len(pat) : s[i + k - 1] = pat[k]

\* pat in s
contains(s, pat) == \E i \in 1..(Len(s) + 1) : IsAt(s, pat, i)

\* s.startswith(pat)
startswith(s, pat) == IsAt(s, pat, 1)

\* str.replace(old, new) for a non-empty old: the occurrences are found from
\* left to right, without overlap, and the replacement text is not rescanned
RECURSIVE replace_from(_, _, _, _)
replace_from(s, old, new, i) ==
    IF i > Len(s) THEN <<>>
    ELSE IF IsAt(s, old, i)
         THEN new \o replace_from(s, old, new, i + Len(old))
         ELSE <<s[i]>> \o replace_from(s, old, new, i + 1)

replace(s, old, new) == replace_from(s, old, new, 1)

----------------------------------------------------------------------------
(* Program constants *)

TABLE_NAME == <<"e", "m", "p", "l", "o", "y", "e", "e", "s">>

SELECT == <<"S", "E", "L", "E", "C", "T">>

GREETING_MSG ==
    <<"Hello! How can I assist you with the employees database today?">>

INVALID_SQL_MSG ==
    <<"There was an issue with generating a valid SQL query. Please revise your question or contact support.">>

GENERIC_MSG == <<"Failed to process your question. Please try again.">>

SORRY_MSG == <<"Sorry, it looks like something went wrong.">>

greetings ==
    { <<"h", "i">>,
      <<"h", "e", "l", "l", "o">>,
      <<"h", "e", "y">>,
      <<"g", "o", "o", "d", " ", "m", "o", "r", "n", "i", "n", "g">>,
      <<"g", "o", "o", "d", " ", "a", "f", "t", "e", "r", "n", "o", "o", "n">>,
      <<"g", "o", "o", "d", " ", "e", "v", "e", "n", "i", "n", "g">> }

BR == <<"<", "b", "r", ">">>
P_OPEN == <<"<", "p", ">">>
P_CLOSE == <<"<", "/", "p", ">">>

Quote == "\""

----------------------------------------------------------------------------
(* is_greeting, lines 82-84 *)

is_greeting(user_input) == strip(lower(user_input)) \in greetings

----------------------------------------------------------------------------
(* format_response, lines 53-61 *)

Digits == {"0", "1", "2", "3", "4", "5", "6", "7", "8", "9"}

\* pd.read_json(response) succeeds: the text is a flat JSON array of
\* one-digit numbers; on any other text it raises ValueError
read_json_ok(s) ==
    LET t == strip(s)
        inner == SubSeq(t, 2, Len(t) - 1)
    IN  /\ Len(t) >= 2
        /\ t[1] = "["
        /\ t[Len(t)] = "]"
        /\ \/ inner = <<>>
           \/ /\ Len(inner) % 2 = 1
              /\ \A i \in 1..Len(inner) :
                    IF i % 2 = 1 THEN inner[i] \in Digits ELSE inner[i] = ","

RECURSIVE to_string_rows(_)
to_string_rows(inner) ==
    IF inner = <<>> THEN <<>>
    ELSE <<"\n", " ", Head(inner)>>
         \o to_string_rows(IF Len(inner) = 1 THEN <<>> ELSE Tail(Tail(inner)))

\* pd.read_json(response).to_string(index=False): one column named 0, one
\* row per element of the array
to_string(s) ==
    LET t == strip(s)
        inner == SubSeq(t, 2, Len(t) - 1)
    IN  IF inner = <<>>
        THEN <<"Empty DataFrame\nColumns: []\nIndex: []">>
        ELSE <<" ", "0">> \o to_string_rows(inner)

format_response(resp) ==
    IF startswith(strip(resp), <<"[">>) /\ read_json_ok(resp)
    THEN to_string(resp)
    ELSE replace(replace(replace(resp, BR, <<"\n">>), P_OPEN, <<>>),
                 P_CLOSE, <<>>)

----------------------------------------------------------------------------
(* create_sql_query_from_response, lines 101-109 *)

\* line 102, with the test of the table name left out
sql_is_valid_no_table(sql) == contains(upper(sql), SELECT)

\* line 102
sql_is_valid(sql) ==
    contains(upper(sql), SELECT) /\ contains(sql, TABLE_NAME)

\* lines 103-105
RECURSIVE quote_columns(_, _)
quote_columns(sql, cols) ==
    IF cols = <<>> THEN sql
    ELSE quote_columns(
            replace(sql, Head(cols), <<Quote>> \o Head(cols) \o <<Quote>>),
            Tail(cols))

----------------------------------------------------------------------------
(* handle_query, lines 64-79 *)

ExceptionTypes == {"ValueError", "Exception"}

\* the except clauses of lines 74-79
handle_query_except(type) ==
    IF type = "ValueError" THEN INVALID_SQL_MSG ELSE GENERIC_MSG

\* lines 67-73 with line 70 left out
hq_next_skip_execute(stage) ==
    CASE stage = "elaborate" -> "get_columns"
      [] stage = "get_columns" -> "synthesize"
      [] stage = "synthesize" -> "summarize"
      [] stage = "execute" -> "summarize"
      [] stage = "summarize" -> "send"

\* the stage that follows a stage that returned, lines 67-73 and 94-99
hq_next(stage) ==
    CASE stage = "elaborate" -> "get_columns"
      [] stage = "get_columns" -> "synthesize"
      [] stage = "synthesize" -> "execute"
      [] stage = "execute" -> "summarize"
      [] stage = "summarize" -> "send"

----------------------------------------------------------------------------
(* MyBot, lines 124-168 *)

\* WaterfallDialog("mainDialog", [intro_step, act_step, final_step])
Steps == <<"intro_step", "act_step", "final_step">>

\* what a step returns after its send_activity: lines 157, 165
step_return(s) == IF s = "intro_step" THEN "end_dialog" ELSE "next"

----------------------------------------------------------------------------
(* Inputs: what the user, the language model and the database may supply *)

Pads == { [i \in 1..n |-> " "] : n \in 0..MaxPad }

cap_first(s) == <<upper_char(Head(s))>> \o Tail(s)

GreetingTexts ==
    { l \o f \o r :
        l \in Pads, r \in Pads,
        f \in UNION { {g, upper(g), cap_first(g)} : g \in greetings } }

\* "", " ", "hi all", "count?", "hello!"
OtherTexts ==
    { <<>>,
      <<" ">>,
      <<"h", "i", " ", "a", "l", "l">>,
      <<"c", "o", "u", "n", "t", "?">>,
      <<"h", "e", "l", "l", "o", "!">> }

\* activity.text: None for an activity that carries no text
ActivityTexts == {None} \cup GreetingTexts \cup OtherTexts

\* column lists of the employees table
Schemas ==
    { << <<"i", "d">>, <<"n", "a", "m", "e">> >>,
      << <<"f", "i", "r", "s", "t", "_", "n", "a", "m", "e">>,
         <<"n", "a", "m", "e">> >>,
      << <<"n", "a", "m", "e">>,
         <<"f", "i", "r", "s", "t", "_", "n", "a", "m", "e">> >>,
      << <<"i", "d">>, <<"e", "m", "p">> >> }

\* content of the model's answer to the synthesis prompt
SqlResponses ==
    { \* SELECT * FROM employees
      <<"S", "E", "L", "E", "C", "T", " ", "*", " ", "F", "R", "O", "M", " ",
        "e", "m", "p", "l", "o", "y", "e", "e", "s">>,
      \* select name from employees
      <<"s", "e", "l", "e", "c", "t", " ", "n", "a", "m", "e", " ",
        "f", "r", "o", "m", " ",
        "e", "m", "p", "l", "o", "y", "e", "e", "s">>,
      \* SELECT name, first_name FROM employees
      <<"S", "E", "L", "E", "C", "T", " ", "n", "a", "m", "e", ",", " ",
        "f", "i", "r", "s", "t", "_", "n", "a", "m", "e", " ",
        "F", "R", "O", "M", " ",
        "e", "m", "p", "l", "o", "y", "e", "e", "s">>,
      \* " SELECT id FROM employees\n"
      <<" ", "S", "E", "L", "E", "C", "T", " ", "i", "d", " ",
        "F", "R", "O", "M", " ",
        "e", "m", "p", "l", "o", "y", "e", "e", "s", "\n">>,
      \* SELECT * FROM staff
      <<"S", "E", "L", "E", "C", "T", " ", "*", " ", "F", "R", "O", "M", " ",
        "s", "t", "a", "f", "f">>,
      \* SELECT * FROM Employees
      <<"S", "E", "L", "E", "C", "T", " ", "*", " ", "F", "R", "O", "M", " ",
        "E", "m", "p", "l", "o", "y", "e", "e", "s">>,
      \* DELETE FROM employees
      <<"D", "E", "L", "E", "T", "E", " ", "F", "R", "O", "M", " ",
        "e", "m", "p", "l", "o", "y", "e", "e", "s">>,
      \* no idea
      <<"n", "o", " ", "i", "d", "e", "a">> }

\* content of the model's answer to the summary prompt
SummaryTexts ==
    { <<"5", " ", "r", "o", "w", "s">>,
      <<" ", "o", "k", "\n">>,
      <<"<", "p", ">", "5", "<", "/", "p", ">">>,
      <<"a", "<", "b", "r", ">", "b">>,
      <<"<", "<", "p", ">", "p", ">">>,
      <<"[", "1", ",", "2", "]">>,
      <<"[", "1">> }

\* fragments of the arguments of format_response
Pieces ==
    { <<"<">>, <<"p", ">">>, P_OPEN, BR, P_CLOSE,
      <<"a">>, <<"[">>, <<"]">>, <<"1">>, <<",">>, <<" ">> }

RECURSIVE Assemble(_)
Assemble(n) ==
    IF n = 0 THEN { <<>> }
    ELSE LET prev == Assemble(n - 1)
         IN  prev \cup { a \o p : a \in prev, p \in Pieces }

FormatInputs == Assemble(MaxPieces)

----------------------------------------------------------------------------
(* Initial state: the bot has been constructed, no activity has arrived *)

InitTurn ==
    /\ pc = "idle"
    /\ text = Unbound
    /\ stack = <<>>
    /\ stored = FALSE
    /\ dstack = <<>>
    /\ next_index = 0
    /\ step_result = None
    /\ step = "none"
    /\ user_question = Unbound
    /\ calls = <<>>
    /\ sent = <<>>
    /\ response = Unbound
    /\ columns = <<>>
    /\ sql_raw = Unbound
    /\ sql_query = Unbound
    /\ validation = "none"
    /\ raised = <<>>
    /\ escaped = FALSE
    /\ steps_run = {}

Init ==
    /\ InitTurn
    /\ fmt_in = Unbound
    /\ fmt_out = Unbound

----------------------------------------------------------------------------
(* The turn: on_message_activity and the waterfall steps *)

hq_vars == <<columns, sql_raw, sql_query, validation>>
dialog_vars ==
    <<stack, stored, dstack, next_index, step_result, step, steps_run>>

\* lines 138-143: continue_dialog finds the stack empty and mainDialog is
\* begun at step 0, or it resumes the active waterfall at its next step with
\* the text of the activity as the result of the previous step
on_message_activity ==
    /\ pc = "idle"
    /\ \E t \in ActivityTexts :
        /\ text' = t
        /\ step_result' = IF stack = <<>> THEN None ELSE t
    /\ dstack' = IF stack = <<>>
                 THEN << [id |-> "mainDialog", stepIndex |-> 0] >>
                 ELSE stack
    /\ next_index' = IF stack = <<>> THEN 0 ELSE stack[1].stepIndex + 1
    /\ pc' = "run_step"
    /\ step' = "none"
    /\ user_question' = Unbound
    /\ calls' = <<>>
    /\ sent' = <<>>
    /\ response' = Unbound
    /\ columns' = <<>>
    /\ sql_raw' = Unbound
    /\ sql_query' = Unbound
    /\ validation' = "none"
    /\ raised' = <<>>
    /\ escaped' = FALSE
    /\ UNCHANGED <<stack, stored, steps_run, fmt_in, fmt_out>>

\* WaterfallDialog.run_step: the step of index next_index is called
\* (lines 148-149, 159-160, 167-168); past the last step the dialog ends
run_step ==
    /\ pc = "run_step"
    /\ IF next_index < Len(Steps)
       THEN LET s == Steps[next_index + 1]
            IN  /\ step' = s
                /\ steps_run' = steps_run \cup {s}
                /\ IF s = "final_step"
                   THEN /\ dstack' = <<>>
                        /\ pc' = "save"
                        /\ UNCHANGED user_question
                   ELSE /\ dstack' =
                             << [dstack[1] EXCEPT !.stepIndex = next_index] >>
                        /\ pc' = "connect"
                        /\ user_question' =
                             IF s = "intro_step" THEN text ELSE step_result
       ELSE /\ dstack' = <<>>
            /\ pc' = "save"
            /\ UNCHANGED <<step, steps_run, user_question>>
    /\ UNCHANGED <<text, stack, stored, next_index, step_result, calls, sent,
                   response, hq_vars, raised, escaped, fmt_in, fmt_out>>

\* lines 151 and 162 (47-50): SQLDatabase.from_uri returns or raises
create_database_connection ==
    /\ pc = "connect"
    /\ calls' = Append(calls, "connect")
    /\ \/ /\ pc' = "branch"
          /\ UNCHANGED <<raised, escaped>>
       \/ \E type \in ExceptionTypes :
            /\ raised' = Append(raised, [stage |-> "connect", type |-> type])
            /\ escaped' = TRUE
            /\ pc' = "turn_error"
    /\ UNCHANGED <<text, dialog_vars, user_question, sent, response, hq_vars,
                   fmt_in, fmt_out>>

\* lines 152-155 and 163, with line 65 of handle_query: the greeting test of
\* the intro step (None has no lower()), then the test of the question
step_branch ==
    /\ pc = "branch"
    /\ IF step = "intro_step" /\ user_question = None
       THEN /\ raised' = Append(raised,
                           [stage |-> "is_greeting", type |-> "Exception"])
            /\ escaped' = TRUE
            /\ pc' = "turn_error"
            /\ UNCHANGED response
       ELSE /\ UNCHANGED <<raised, escaped>>
            /\ IF step = "intro_step" /\ is_greeting(user_question)
               THEN /\ response' = GREETING_MSG
                    /\ pc' = "send"
               ELSE IF truthy(user_question)
                    THEN /\ pc' = "elaborate"
                         /\ UNCHANGED response
                    ELSE /\ response' = None
                         /\ pc' = "send"
    /\ UNCHANGED <<text, dialog_vars, user_question, calls, sent, hq_vars,
                   fmt_in, fmt_out>>

\* an exception of a stage of handle_query reaches lines 74-79
hq_caught(stage, type) ==
    /\ raised' = Append(raised, [stage |-> stage, type |-> type])
    /\ response' = handle_query_except(type)
    /\ pc' = "send"

\* line 67 (87-90): the first model call returns or raises
elaborate_user_input ==
    /\ pc = "elaborate"
    /\ calls' = Append(calls, "elaborate")
    /\ \/ /\ pc' = hq_next("elaborate")
          /\ UNCHANGED <<raised, response>>
       \/ \E type \in ExceptionTypes : hq_caught("elaborate", type)
    /\ UNCHANGED <<text, dialog_vars, user_question, sent, hq_vars, escaped,
                   fmt_in, fmt_out>>

\* lines 94-96: the columns of the table are read from the catalog
get_columns ==
    /\ pc = "get_columns"
    /\ calls' = Append(calls, "introspect")
    /\ \/ /\ \E cols \in Schemas : columns' = cols
          /\ pc' = hq_next("get_columns")
          /\ UNCHANGED <<raised, response>>
       \/ /\ \E type \in ExceptionTypes : hq_caught("get_columns", type)
          /\ UNCHANGED columns
    /\ UNCHANGED <<text, dialog_vars, user_question, sent, sql_raw, sql_query,
                   validation, escaped, fmt_in, fmt_out>>

\* lines 97-109: the second model call, then the test of the statement
create_sql_query_from_response ==
    /\ pc = "synthesize"
    /\ calls' = Append(calls, "synthesize")
    /\ \/ \E content \in SqlResponses :
            LET sql == strip(content)
            IN  /\ sql_raw' = sql
                /\ IF sql_is_valid(sql)
                   THEN /\ sql_query' = quote_columns(sql, columns)
                        /\ validation' = "passed"
                        /\ pc' = hq_next("synthesize")
                        /\ UNCHANGED <<raised, response>>
                   ELSE /\ validation' = "failed"
                        /\ hq_caught("validation", "ValueError")
                        /\ UNCHANGED sql_query
       \/ /\ \E type \in ExceptionTypes : hq_caught("synthesize", type)
          /\ UNCHANGED <<sql_raw, sql_query, validation>>
    /\ UNCHANGED <<text, dialog_vars, user_question, sent, columns, escaped,
                   fmt_in, fmt_out>>

\* line 70 (112-116): the statement is run, the rows are read
execute_sql_query ==
    /\ pc = "execute"
    /\ calls' = Append(calls, "execute")
    /\ \/ /\ pc' = hq_next("execute")
          /\ UNCHANGED <<raised, response>>
       \/ \E type \in ExceptionTypes : hq_caught("execute", type)
    /\ UNCHANGED <<text, dialog_vars, user_question, sent, hq_vars, escaped,
                   fmt_in, fmt_out>>

\* lines 71-73 (119-122): the third model call, then format_response
prepare_final_response ==
    /\ pc = "summarize"
    /\ calls' = Append(calls, "summarize")
    /\ \/ /\ \E content \in SummaryTexts :
                response' = format_response(strip(content))
          /\ pc' = hq_next("summarize")
          /\ UNCHANGED raised
       \/ \E type \in ExceptionTypes : hq_caught("summarize", type)
    /\ UNCHANGED <<text, dialog_vars, user_question, sent, hq_vars, escaped,
                   fmt_in, fmt_out>>

\* lines 156-157 and 164-165: the response is sent, then the step ends the
\* dialog or passes to the next step
send_activity ==
    /\ pc = "send"
    /\ sent' = Append(sent, response)
    /\ IF step_return(step) = "end_dialog"
       THEN /\ dstack' = <<>>
            /\ pc' = "save"
            /\ UNCHANGED <<next_index, step_result>>
       ELSE /\ next_index' = dstack[1].stepIndex + 1
            /\ step_result' = None
            /\ pc' = "run_step"
            /\ UNCHANGED dstack
    /\ UNCHANGED <<text, stack, stored, step, steps_run, user_question,
                   calls, response, hq_vars, raised, escaped, fmt_in,
                   fmt_out>>

\* lines 145-146: the dialog state of the turn is written to the storage
\* (MemoryStorage.write keeps a copy of it)
save_changes ==
    /\ pc = "save"
    /\ stack' = dstack
    /\ stored' = TRUE
    /\ pc' = "idle"
    /\ UNCHANGED <<text, dstack, next_index, step_result, step, steps_run,
                   user_question, calls, sent, response, hq_vars, raised,
                   escaped, fmt_in, fmt_out>>

\* main.py lines 19-29: an exception that left the bot; the apology is sent
\* and the exception raised again to the adapter.  save_changes was not
\* reached and nothing undoes what the turn did to its dialog stack.  Once
\* the conversation has a stored state, MemoryStorage.read hands out the
\* stored object itself, not a copy: the DialogState of the turn is the one
\* of the storage, and the dialog pushed by begin_dialog stays in it.  A
\* conversation without stored state worked on a fresh DialogState, which is
\* dropped.
on_error ==
    /\ pc = "turn_error"
    /\ sent' = Append(sent, SORRY_MSG)
    /\ stack' = IF stored THEN dstack ELSE stack
    /\ pc' = "idle"
    /\ UNCHANGED <<text, stored, dstack, next_index, step_result, step,
                   steps_run, user_question, calls, response, hq_vars,
                   raised, escaped, fmt_in, fmt_out>>

Next ==
    \/ on_message_activity
    \/ run_step
    \/ create_database_connection
    \/ step_branch
    \/ elaborate_user_input
    \/ get_columns
    \/ create_sql_query_from_response
    \/ execute_sql_query
    \/ prepare_final_response
    \/ send_activity
    \/ save_changes
    \/ on_error

Spec == Init /\ [][Next]_vars

----------------------------------------------------------------------------
(* format_response as a function of its argument *)

InitFormat ==
    /\ InitTurn
    /\ fmt_in \in FormatInputs
    /\ fmt_out = Unbound

format_apply ==
    /\ fmt_in # Unbound
    /\ fmt_out = Unbound
    /\ fmt_out' = format_response(fmt_in)
    /\ UNCHANGED <<turn_vars, fmt_in>>

NextFormat == format_apply

SpecFormat == InitFormat /\ [][NextFormat]_vars

----------------------------------------------------------------------------
(* Vocabulary of the properties *)

IsLlmCall(c) == c \in {"elaborate", "synthesize", "summarize"}
IsDbCall(c) == c \in {"connect", "introspect", "execute"}
IsHqCall(c) == c # "connect"

llm_calls == SelectSeq(calls, IsLlmCall)
db_calls == SelectSeq(calls, IsDbCall)
hq_calls == SelectSeq(calls, IsHqCall)

Count(seq, c) == Cardinality({ i \in 1..Len(seq) : seq[i] = c })

IsPrefix(a, b) == Len(a) <= Len(b) /\ a = SubSeq(b, 1, Len(a))

HasMarker(s) == contains(s, BR) \/ contains(s, P_OPEN) \/ contains(s, P_CLOSE)

\* the text, trimmed and lower-cased, is one of the six greeting phrases
IsGreetingText(t) ==
    /\ t \notin {Unbound, None}
    /\ lower(strip(t)) \in greetings

\* a text that is present, not empty and not a greeting
IsQuestionText(t) ==
    /\ t \notin {Unbound, None, <<>>}
    /\ lower(strip(t)) \notin greetings

TurnDone == pc = "idle" /\ text # Unbound

\* handle_query has returned for a non-empty, non-greeting question
HqReturned == pc = "send" /\ IsQuestionText(user_question)

\* no call of the turn raised (a rejected statement is not a raised call)
NoCallRaised == \A i \in 1..Len(raised) : raised[i].stage = "validation"

HqCallOrder ==
    <<"elaborate", "introspect", "synthesize", "execute", "summarize">>

----------------------------------------------------------------------------
(* C1 *)

\* C1: in a turn whose text is a greeting (any case, surrounding blanks) no
\* language-model call and no database call is issued, connection creation
\* included, and the one reply of the turn is the canned greeting.
C1_GreetingIssuesNoCall ==
    IsGreetingText(text) =>
        /\ calls = <<>>
        /\ TurnDone => sent = <<GREETING_MSG>>

----------------------------------------------------------------------------
(* C2 *)

\* C2 as stated: when handle_query returns for a non-empty, non-greeting
\* question and no call raised, it has issued exactly three language-model
\* calls, whether the statement was accepted or rejected; and when it was
\* accepted, exactly one introspection and exactly one execution call.
C2_ExactlyThreeModelCalls ==
    (HqReturned /\ NoCallRaised) =>
        /\ Len(llm_calls) = 3
        /\ validation = "passed" =>
              /\ Count(calls, "introspect") = 1
              /\ Count(calls, "execute") = 1

\* C2 amended: handle_query issues its calls in the order elaborate,
\* introspect, synthesize, execute, summarize, each at most once, stopping
\* at the first stage that fails.  When it returns: a rejected statement
\* means exactly the calls elaborate, introspect, synthesize (two model
\* calls, no execution, no summary); an accepted statement means exactly one
\* introspection and one execution call; and no raised call and an accepted
\* statement mean all five calls, three of them model calls.
C2_CallsByOutcome ==
    /\ IsPrefix(hq_calls, HqCallOrder)
    /\ HqReturned =>
          /\ validation = "failed" =>
                /\ hq_calls = <<"elaborate", "introspect", "synthesize">>
                /\ Len(llm_calls) = 2
          /\ validation = "passed" =>
                /\ Count(calls, "introspect") = 1
                /\ Count(calls, "execute") = 1
          /\ (validation = "passed" /\ NoCallRaised) =>
                /\ hq_calls = HqCallOrder
                /\ Len(llm_calls) = 3

\* a question whose statement was rejected: two model calls were issued
C2_Witness ==
    /\ HqReturned
    /\ NoCallRaised
    /\ validation = "failed"
    /\ llm_calls = <<"elaborate", "synthesize">>

----------------------------------------------------------------------------
(* C3 *)

\* the answer of the synthesis call lacks SELECT (in any case) or lacks the
\* table name
LacksSelectOrTable(sql) ==
    \/ ~ contains(upper(sql), SELECT)
    \/ ~ contains(sql, TABLE_NAME)

\* C3: when the synthesized statement lacks SELECT or the table name, the
\* statement is rejected with the ValueError of line 109, neither the
\* executor nor the summarizer is called in the turn, handle_query returns
\* the fixed validation message and nothing escapes to the adapter.
C3_RejectedStatement ==
    (sql_raw # Unbound /\ LacksSelectOrTable(sql_raw)) =>
        /\ validation = "failed"
        /\ raised = <<[stage |-> "validation", type |-> "ValueError"]>>
        /\ Count(calls, "execute") = 0
        /\ Count(calls, "summarize") = 0
        /\ response = INVALID_SQL_MSG
        /\ ~ escaped
        /\ pc = "send" \/ sent = <<INVALID_SQL_MSG>>

\* a finished turn whose statement had SELECT but another table name
C3_Witness ==
    /\ TurnDone
    /\ sql_raw # Unbound
    /\ contains(upper(sql_raw), SELECT)
    /\ ~ contains(sql_raw, TABLE_NAME)
    /\ sent = <<INVALID_SQL_MSG>>

----------------------------------------------------------------------------
(* C4 *)

\* C4: when handle_query returns after an exception, an exception other
\* than the rejection of the statement gives the generic message, whatever
\* its type; the validation message means the statement was rejected.
C4_OtherFaultsGeneric ==
    (pc = "send" /\ raised # <<>>) =>
        /\ raised[Len(raised)].stage # "validation" =>
              response = GENERIC_MSG
        /\ response = INVALID_SQL_MSG => validation = "failed"

----------------------------------------------------------------------------
(* C5 *)

CallStages ==
    {"connect", "elaborate", "get_columns", "synthesize", "execute",
     "summarize"}

\* C5: in a turn whose text is a question, an exception of a language-model
\* call or of a database call (the connection of the intro step included)
\* does not leave the turn, and the text sent is one of the two fixed
\* messages of handle_query.
C5_CallFaultsCaught ==
    ( /\ IsQuestionText(text)
      /\ \E i \in 1..Len(raised) : raised[i].stage \in CallStages ) =>
        /\ ~ escaped
        /\ TurnDone => sent \in { <<INVALID_SQL_MSG>>, <<GENERIC_MSG>> }

----------------------------------------------------------------------------
(* C6 *)

\* one pass over the text that drops every marker found (a line break
\* standing for <br>)
RECURSIVE delete_markers_from(_, _)
delete_markers_from(s, i) ==
    IF i > Len(s) THEN <<>>
    ELSE IF IsAt(s, BR, i) THEN <<"\n">> \o delete_markers_from(s, i + 4)
    ELSE IF IsAt(s, P_OPEN, i) THEN delete_markers_from(s, i + 3)
    ELSE IF IsAt(s, P_CLOSE, i) THEN delete_markers_from(s, i + 4)
    ELSE <<s[i]>> \o delete_markers_from(s, i + 1)

delete_markers(s) == delete_markers_from(s, 1)

\* C6: format_response returns a text without marker and not starting with
\* '[' unchanged; returns the table of a JSON array instead of the JSON
\* text; and returns a text with markers stripped of them, so that no
\* marker is left in the result.
C6_FormatResponse ==
    fmt_out # Unbound =>
        /\ (~ HasMarker(fmt_in) /\ ~ startswith(lstrip(fmt_in), <<"[">>)) =>
              fmt_out = fmt_in
        /\ read_json_ok(fmt_in) =>
              /\ fmt_out = to_string(fmt_in)
              /\ fmt_out # fmt_in
        /\ (HasMarker(fmt_in) /\ ~ read_json_ok(fmt_in)) =>
              /\ ~ HasMarker(fmt_out)
              /\ fmt_out = delete_markers(fmt_in)

----------------------------------------------------------------------------
(* C7 *)

\* C7: for the empty question handle_query issues no call and returns no
\* value, and the intro step never sends a message whose text is that
\* missing value.
C7_EmptyQuestionHandled ==
    text = <<>> =>
        /\ hq_calls = <<>>
        /\ pc = "send" => response = None
        /\ \A i \in 1..Len(sent) : sent[i] # None

----------------------------------------------------------------------------
(* C8 *)

\* C8: every finished turn has sent exactly one message, and that message is
\* a text without <br>, <p> or </p>.
C8_OnePlainMessage ==
    TurnDone =>
        /\ Len(sent) = 1
        /\ sent[1] # None
        /\ ~ HasMarker(sent[1])

----------------------------------------------------------------------------
(* C9 *)

\* C9: over any sequence of messages the intro step is the only waterfall
\* step that runs: the waterfall is always entered at step 0, the intro step
\* has sent its reply and emptied the dialog stack when the state is saved,
\* and the saved dialog stack is empty whenever a message arrives.
C9_OnlyIntroRuns ==
    /\ steps_run \subseteq {"intro_step"}
    /\ stack = <<>>
    /\ pc = "run_step" => next_index = 0
    /\ pc = "save" => (dstack = <<>> /\ Len(sent) = 1)

----------------------------------------------------------------------------
(* C10 *)

IdentChars ==
    { Lowers[i] : i \in 1..26 } \cup { Uppers[i] : i \in 1..26 }
        \cup Digits \cup {"_", Quote}

\* col occurs in s with no identifier character or quote next to it
standalone(s, col) ==
    \E i \in 1..Len(s) :
        /\ IsAt(s, col, i)
        /\ i = 1 \/ s[i - 1] \notin IdentChars
        /\ i + Len(col) > Len(s) \/ s[i + Len(col)] \notin IdentChars

\* col occurs in s between exactly one pair of double quotes
wrapped_once(s, col) ==
    LET q == <<Quote>> \o col \o <<Quote>>
    IN  \E i \in 1..Len(s) :
            /\ IsAt(s, q, i)
            /\ i = 1 \/ s[i - 1] # Quote
            /\ i + Len(q) > Len(s) \/ s[i + Len(q)] # Quote

\* C10: the statement returned by create_sql_query_from_response still has
\* SELECT (in any case) and the table name after the quoting of the column
\* names, for every column list, and each column name that stands alone in
\* the model's statement stands in it between exactly one pair of quotes.
C10_RewriteKeepsStatement ==
    validation = "passed" =>
        /\ contains(upper(sql_query), SELECT)
        /\ contains(sql_query, TABLE_NAME)
        /\ \A i \in 1..Len(columns) :
              standalone(sql_raw, columns[i]) =>
                  wrapped_once(sql_query, columns[i])

====
